---- MODULE Spec2Model ----
(***************************************************************************)
(* RainPredRNN2: the window indexer of RadarDataset, the zig-zag layer     *)
(* scheduler of PredRNN_Block, the driver RainPredRNN.forward, one step of *)
(* SpatiotemporalLSTMCell, the tensor shapes of a forward call,            *)
(* normalize_image, save_predictions and the training loop, as state       *)
(* machines, each with its own specification over one tuple of variables.  *)
(*                                                                         *)
(* Python lists are 0-based; the model keeps the source's 0-based indices  *)
(* and reads TLA+ sequences (1-based) through At.                          *)
(***************************************************************************)
EXTENDS Integers, Sequences, FiniteSets, TLC

\* ------------------------------------------------------------------ bounds
MaxFiles == 4
MaxSeqLen == 3
MaxLayers == 3
MaxT == 3
MaxInputLen == 2
MaxPredLen == 2
MaxSide == 8
MaxPixels == 2
MaxLogUnits == 8
MaxBatch == 3
MaxFrames == 3
MaxEpochs == 3
MaxMae == 2

\* ------------------------------------------------------- program constants
BATCH_SIZE == 4
INPUT_DIM == 1
ENC1_CHANNELS == 64
ENC2_CHANNELS == 128
DEC1_IN_CHANNELS == 128
DEC1_OUT_CHANNELS == 64
SKIP_CHANNELS == 64
DEFAULT_NUM_HIDDEN == 64
SCRIPT_NUM_HIDDEN == 128
GATES == 7
DBZ_FACTOR == 10
MIN_DBZ == 0
MAX_DBZ == 70
PAD_WIDTH == 4

VARIABLES
    \* --- RadarDataset.__init__
    files,                   \* what opening each file of self.files does
    seq_length,              \* self.seq_length = input_length + pred_length
    file_validity,           \* self.file_validity: file index -> BOOLEAN
    valid_indices,           \* self.valid_indices
    total_possible_windows,  \* self.total_possible_windows
    start_idx,               \* outer loop variable
    i,                       \* inner loop variable
    window_valid,            \* window_valid
    total_files,             \* self.total_files
    invalid_files,           \* self.invalid_files
    valid_windows,           \* self.valid_windows
    invalid_windows,         \* self.invalid_windows
    openCount,               \* number of rasterio.open calls made per file
    ipc,                     \* position in __init__ / its caller
    \* --- PredRNN_Block.forward
    num_layers,              \* self.num_layers
    seq_len,                 \* input_sequence.size(1)
    h_t, c_t, m_t,           \* the three state lists
    t,                       \* timestep loop variable
    k,                       \* position in the current layer loop
    output_inner,            \* output_inner
    total_decouple_loss,     \* total_decouple_loss (before the division)
    returned_loss,           \* <<numerator, denominator>> of the returned loss
    calls,                   \* every cell invocation made so far, in order
    spc,                     \* position in forward
    \* --- RainPredRNN.forward (recurrent variant), called on one model
    input_length,            \* seq_len = input_sequence.size(1)
    pred_length,             \* pred_length
    teacher_forcing,         \* teacher_forcing
    training,                \* self.training
    bn_writer,               \* the call that last updated the BatchNorm
                             \* running statistics (0: none yet)
    fwd,                     \* per forward call: its locals and its log
    \* --- SpatiotemporalLSTMCell.forward
    cell,                    \* one cell step: arguments, weights, results
    \* --- RainPredRNN.forward, tensor shapes
    shapes,                  \* the shapes of the tensors of one forward call
    \* --- normalize_image
    normalizer,              \* one call: img before and after
    \* --- save_predictions
    saver,                   \* one call: loop variables and files written
    \* --- __main__ training loop
    trainer                  \* best_val_loss, the checkpoint file, the epoch

ivars == <<files, seq_length, file_validity, valid_indices,
           total_possible_windows, start_idx, i, window_valid, total_files,
           invalid_files, valid_windows, invalid_windows, openCount, ipc>>

svars == <<num_layers, seq_len, h_t, c_t, m_t, t, k, output_inner,
           total_decouple_loss, returned_loss, calls, spc>>

dvars == <<input_length, pred_length, teacher_forcing, training, bn_writer,
           fwd>>

evars == <<cell, shapes, normalizer, saver, trainer>>

vars == <<ivars, svars, dvars, evars>>

\* ----------------------------------------------------------------- helpers
Max(a, b) == IF a >= b THEN a ELSE b

\* Python list indexing: 0-based, a negative index counts from the end.
At(list, idx) == IF idx < 0 THEN list[Len(list) + idx + 1] ELSE list[idx + 1]

Range(s) == {s[j] : j \in DOMAIN s}

\* ==========================================================================
\* RadarDataset.__init__ : the window indexer
\* ==========================================================================

\* What rasterio.open(file) does for a file:
\*   "ok"       opens, src.count > 0
\*   "nobands"  opens, src.count = 0
\*   "ioerr"    raises RasterioIOError
\*   "othererr" raises an exception that is not a RasterioIOError
FileStatus == {"ok", "nobands", "ioerr", "othererr"}

\* src.count of a file that opens
BandCount(status) == IF status = "ok" THEN 1 ELSE 0

\* the open raises something the except clause does not name
RaisesUncaught(status) == status = "othererr"

\* try: valid = src.count > 0   except RasterioIOError: valid = False
CheckedValid(status) ==
    IF status = "ioerr" THEN FALSE ELSE BandCount(status) > 0

\* max(0, len(self.files) - self.seq_length + 1)
TotalPossibleWindowsOffByOne(n, L) == Max(0, n - L)

TotalPossibleWindows(n, L) == Max(0, n - L + 1)

\* if file not in self.file_validity
NeedsCheckAlways(file) == TRUE

NeedsCheck(file) == file \notin DOMAIN file_validity

\* sum(1 for valid in self.file_validity.values() if not valid)
CountInvalid(fv) == Cardinality({f \in DOMAIN fv : ~fv[f]})

\* len(loader) of a DataLoader without drop_last over n samples
LoaderLen(n) == (n + BATCH_SIZE - 1) \div BATCH_SIZE

CellIdle == cell = <<>>

ShapesIdle == shapes = <<>>

NormalizerIdle == normalizer = <<>>

SaverIdle == saver = <<>>

TrainerIdle == trainer = <<>>

ExtrasIdle ==
    /\ CellIdle /\ ShapesIdle /\ NormalizerIdle /\ SaverIdle /\ TrainerIdle

DriverIdle ==
    /\ input_length = 0
    /\ pred_length = 0
    /\ teacher_forcing = FALSE
    /\ training = FALSE
    /\ bn_writer = 0
    /\ fwd = <<>>

SchedIdle ==
    /\ num_layers = 0 /\ seq_len = 0
    /\ h_t = <<>> /\ c_t = <<>> /\ m_t = <<>>
    /\ t = 0 /\ k = 0
    /\ output_inner = <<>>
    /\ total_decouple_loss = 0
    /\ returned_loss = <<0, 1>>
    /\ calls = <<>>
    /\ spc = "idle"

InitIndexer ==
    /\ \E n \in 0..MaxFiles : files \in [1..n -> FileStatus]
    /\ seq_length \in 1..MaxSeqLen
    /\ file_validity = <<>>
    /\ valid_indices = <<>>
    /\ total_possible_windows = TotalPossibleWindows(Len(files), seq_length)
    /\ start_idx = 0
    /\ i = 0
    /\ window_valid = TRUE
    /\ total_files = 0
    /\ invalid_files = 0
    /\ valid_windows = 0
    /\ invalid_windows = 0
    /\ openCount = [f \in 0..(Len(files) - 1) |-> 0]
    /\ ipc = "outer"
    /\ SchedIdle
    /\ DriverIdle
    /\ ExtrasIdle

\* for start_idx in range(self.total_possible_windows): window_valid = True
StartWindow ==
    /\ ipc = "outer"
    /\ UNCHANGED <<svars, dvars, evars>>
    /\ start_idx < total_possible_windows
    /\ window_valid' = TRUE
    /\ i' = 0
    /\ ipc' = "inner"
    /\ UNCHANGED <<files, seq_length, file_validity, valid_indices,
                   total_possible_windows, start_idx, total_files,
                   invalid_files, valid_windows, invalid_windows, openCount>>

\* one iteration of "for i in range(self.seq_length)" in which no exception
\* escapes: the lazy check, then the test of the cached flag
VisitFile ==
    /\ ipc = "inner"
    /\ UNCHANGED <<svars, dvars, evars>>
    /\ i < seq_length
    /\ LET file == start_idx + i
           check == NeedsCheck(file)
           status == At(files, file)
           fv == IF check
                 THEN (file :> CheckedValid(status)) @@ file_validity
                 ELSE file_validity
       IN /\ ~(check /\ RaisesUncaught(status))
          /\ file_validity' = fv
          /\ openCount' = IF check
                          THEN [openCount EXCEPT ![file] = @ + 1]
                          ELSE openCount
          /\ IF ~fv[file]
             THEN /\ window_valid' = FALSE
                  /\ ipc' = "window_end"
                  /\ i' = i
             ELSE /\ window_valid' = window_valid
                  /\ ipc' = "inner"
                  /\ i' = i + 1
    /\ UNCHANGED <<files, seq_length, valid_indices, total_possible_windows,
                   start_idx, total_files, invalid_files, valid_windows,
                   invalid_windows>>

\* the same iteration when rasterio.open raises an exception other than
\* RasterioIOError: nothing catches it and __init__ is left
OpenRaises ==
    /\ ipc = "inner"
    /\ UNCHANGED <<svars, dvars, evars>>
    /\ i < seq_length
    /\ LET file == start_idx + i
       IN /\ NeedsCheck(file)
          /\ RaisesUncaught(At(files, file))
          /\ openCount' = [openCount EXCEPT ![file] = @ + 1]
    /\ ipc' = "raised"
    /\ UNCHANGED <<files, seq_length, file_validity, valid_indices,
                   total_possible_windows, start_idx, i, window_valid,
                   total_files, invalid_files, valid_windows, invalid_windows>>

\* the inner range is exhausted
WindowScanned ==
    /\ ipc = "inner"
    /\ UNCHANGED <<svars, dvars, evars>>
    /\ i >= seq_length
    /\ ipc' = "window_end"
    /\ UNCHANGED <<files, seq_length, file_validity, valid_indices,
                   total_possible_windows, start_idx, i, window_valid,
                   total_files, invalid_files, valid_windows, invalid_windows,
                   openCount>>

\* if window_valid: self.valid_indices.append(start_idx)
EndWindow ==
    /\ ipc = "window_end"
    /\ UNCHANGED <<svars, dvars, evars>>
    /\ valid_indices' = IF window_valid
                        THEN Append(valid_indices, start_idx)
                        ELSE valid_indices
    /\ start_idx' = start_idx + 1
    /\ ipc' = "outer"
    /\ UNCHANGED <<files, seq_length, file_validity, total_possible_windows,
                   i, window_valid, total_files, invalid_files, valid_windows,
                   invalid_windows, openCount>>

\* the statistics after the scan
FinalStats ==
    /\ ipc = "outer"
    /\ UNCHANGED <<svars, dvars, evars>>
    /\ start_idx >= total_possible_windows
    /\ total_files' = Len(files)
    /\ invalid_files' = CountInvalid(file_validity)
    /\ valid_windows' = Len(valid_indices)
    /\ invalid_windows' = total_possible_windows - Len(valid_indices)
    /\ ipc' = "done"
    /\ UNCHANGED <<files, seq_length, file_validity, valid_indices,
                   total_possible_windows, start_idx, i, window_valid,
                   openCount>>

\* evaluate(model, loader, device) over the constructed dataset: the loop
\* over the loader, then metrics[k] /= len(loader)
Evaluate ==
    /\ ipc = "done"
    /\ UNCHANGED <<svars, dvars, evars>>
    /\ ipc' = IF LoaderLen(Len(valid_indices)) = 0
              THEN "zero_division"
              ELSE "evaluated"
    /\ UNCHANGED <<files, seq_length, file_validity, valid_indices,
                   total_possible_windows, start_idx, i, window_valid,
                   total_files, invalid_files, valid_windows, invalid_windows,
                   openCount>>

NextIndexer ==
    \/ StartWindow
    \/ VisitFile
    \/ OpenRaises
    \/ WindowScanned
    \/ EndWindow
    \/ FinalStats
    \/ Evaluate

SpecIndexer == InitIndexer /\ [][NextIndexer]_vars

\* ==========================================================================
\* PredRNN_Block.forward : the zig-zag layer scheduler
\* ==========================================================================
\* A tensor is modelled by where it comes from, <<kind, t, phase, l>>:
\*   <<"init", 0, 0, l>>      the caller's h_t[l] / c_t[l] / m_t[l]
\*   <<"x", t, 0, 0>>         input_sequence[:, t]
\*   <<"cell", t, phase, l>>  what self.cells[l] returned when invoked in
\*                            phase 1 (bottom-up) or 2 (top-down) of step t
\*   <<"none", 0, 0, 0>>      None
InitVal(l) == <<"init", 0, 0, l>>

XVal(tt) == <<"x", tt, 0, 0>>

CellOut(tt, phase, l) == <<"cell", tt, phase, l>>

NoneVal == <<"none", 0, 0, 0>>

\* the values a cell's decouple loss, mean(1 - cosine_similarity), is drawn
\* from
LossVals == 0..2

\* reversed(range(self.num_layers))
BottomUpOrderForward(n) == [j \in 1..n |-> j - 1]

BottomUpOrder(n) == [j \in 1..n |-> n - j]

\* range(1, self.num_layers)
TopDownOrderFromZero(n) == [j \in 1..n |-> j - 1]

TopDownOrder(n) == [j \in 1..(n - 1) |-> j]

\* phase 1: input_sequence[:, t] if l == 0 else h_t[l-1]
BottomUpInput(l) == IF l = 0 THEN XVal(t) ELSE At(h_t, l - 1)

\* phase 1: m_t[l+1] if l < self.num_layers - 1 else None
BottomUpMUpperShort(l) ==
    IF l < num_layers - 2 THEN At(m_t, l + 1) ELSE NoneVal

BottomUpMUpper(l) ==
    IF l < num_layers - 1 THEN At(m_t, l + 1) ELSE NoneVal

\* phase 2: input_current = h_t[l-1]
TopDownInputOwn(l) == At(h_t, l)

TopDownInput(l) == At(h_t, l - 1)

\* phase 2: m_upper = m_t[l-1]
TopDownMUpper(l) == At(m_t, l - 1)

\* output_inner.append(h_t[-1]): the value appended
BottomLayerH == At(h_t, 0)

TopLayerH == At(h_t, -1)

\* h_new, c_new, m_new, cell_loss = self.cells[l](input_current, h_t[l],
\* c_t[l], m_t[l], m_upper), then the four updates that follow it
CellInvoke(phase, l, input_current, m_upper, cell_loss) ==
    /\ calls' = Append(calls, [t |-> t, phase |-> phase, l |-> l,
                               x |-> input_current,
                               h_prev |-> At(h_t, l),
                               c_prev |-> At(c_t, l),
                               m_prev |-> At(m_t, l),
                               m_upper |-> m_upper])
    /\ h_t' = [h_t EXCEPT ![l + 1] = CellOut(t, phase, l)]
    /\ c_t' = [c_t EXCEPT ![l + 1] = CellOut(t, phase, l)]
    /\ m_t' = [m_t EXCEPT ![l + 1] = CellOut(t, phase, l)]
    /\ total_decouple_loss' = total_decouple_loss + cell_loss

IndexerIdle ==
    /\ files = <<>>
    /\ seq_length = 0
    /\ file_validity = <<>>
    /\ valid_indices = <<>>
    /\ total_possible_windows = 0
    /\ start_idx = 0
    /\ i = 0
    /\ window_valid = TRUE
    /\ total_files = 0
    /\ invalid_files = 0
    /\ valid_windows = 0
    /\ invalid_windows = 0
    /\ openCount = <<>>
    /\ ipc = "idle"

InitScheduler ==
    /\ num_layers \in 1..MaxLayers
    /\ seq_len \in 1..MaxT
    /\ h_t = [j \in 1..num_layers |-> InitVal(j - 1)]
    /\ c_t = [j \in 1..num_layers |-> InitVal(j - 1)]
    /\ m_t = [j \in 1..num_layers |-> InitVal(j - 1)]
    /\ t = 0
    /\ k = 0
    /\ output_inner = <<>>
    /\ total_decouple_loss = 0
    /\ returned_loss = <<0, 1>>
    /\ calls = <<>>
    /\ spc = "bottom_up"
    /\ IndexerIdle
    /\ DriverIdle
    /\ ExtrasIdle

\* one iteration of "for l in reversed(range(self.num_layers))"
BottomUpStep ==
    /\ spc = "bottom_up"
    /\ UNCHANGED <<ivars, dvars, evars>>
    /\ k < Len(BottomUpOrder(num_layers))
    /\ LET l == At(BottomUpOrder(num_layers), k)
       IN \E cell_loss \in LossVals :
              CellInvoke(1, l, BottomUpInput(l), BottomUpMUpper(l), cell_loss)
    /\ IF k + 1 < Len(BottomUpOrder(num_layers))
       THEN k' = k + 1 /\ spc' = "bottom_up"
       ELSE k' = 0 /\ spc' = "top_down"
    /\ UNCHANGED <<num_layers, seq_len, t, output_inner, returned_loss>>

\* one iteration of "for l in range(1, self.num_layers)"
TopDownStep ==
    /\ spc = "top_down"
    /\ UNCHANGED <<ivars, dvars, evars>>
    /\ k < Len(TopDownOrder(num_layers))
    /\ LET l == At(TopDownOrder(num_layers), k)
       IN \E cell_loss \in LossVals :
              CellInvoke(2, l, TopDownInput(l), TopDownMUpper(l), cell_loss)
    /\ k' = k + 1
    /\ UNCHANGED <<num_layers, seq_len, t, output_inner, returned_loss, spc>>

\* output_inner.append(h_t[-1]), and the next timestep
RecordOutput ==
    /\ spc = "top_down"
    /\ UNCHANGED <<ivars, dvars, evars>>
    /\ k >= Len(TopDownOrder(num_layers))
    /\ output_inner' = Append(output_inner, TopLayerH)
    /\ t' = t + 1
    /\ k' = 0
    /\ spc' = IF t + 1 < seq_len THEN "bottom_up" ELSE "finish"
    /\ UNCHANGED <<num_layers, seq_len, h_t, c_t, m_t, total_decouple_loss,
                   returned_loss, calls>>

\* total_decouple_loss /= (seq_len * self.num_layers), and the return
Finish ==
    /\ spc = "finish"
    /\ UNCHANGED <<ivars, dvars, evars>>
    /\ returned_loss' = <<total_decouple_loss, seq_len * num_layers>>
    /\ spc' = "returned"
    /\ UNCHANGED <<num_layers, seq_len, h_t, c_t, m_t, t, k, output_inner,
                   total_decouple_loss, calls>>

NextScheduler ==
    \/ BottomUpStep
    \/ TopDownStep
    \/ RecordOutput
    \/ Finish

SpecScheduler == InitScheduler /\ [][NextScheduler]_vars

\* ==========================================================================
\* RainPredRNN.forward (recurrent variant) : the encode-predict-decode driver
\* ==========================================================================
\* Forward calls on one model, all with the same input_sequence, pred_length
\* and teacher_forcing; their steps interleave.
\*
\* A frame is <<"in", j>> (input_sequence[:, j]) or <<"pred", t>> (the
\* prediction decoded at step t).  One call of self.encoder is
\* <<site, idx, frameKind, frameIdx>>: made by the encoder loop ("loop", j)
\* or by step t of the main loop ("step", t), on the frame named.  Its
\* feature map and its skip connection are both named by the call.
ForwardCalls == {1, 2}

\* the outcomes of a convolution under cudnn.deterministic = False,
\* cudnn.benchmark = True (set_seed)
CudnnVariants == {0, 1}

UnboundEnc == <<"unbound", 0, "none", 0>>

EncCall(site, idx, frame) == <<site, idx, frame[1], frame[2]>>

\* for t in range(seq_len + pred_length)
TotalStepsShort == input_length + pred_length - 1

TotalSteps == input_length + pred_length

\* "if t < seq_len" is false
Predicting(tt) == tt >= input_length

\* if teacher_forcing and self.training
UsesStoredIgnoringMode == teacher_forcing

UsesStored == teacher_forcing /\ training

\* encoder_outputs[t - seq_len]
StoredIndex(tt) == tt - input_length

\* predictions[-1] if predictions else input_sequence[:, -1]
PrevFrameLastInput(r) == <<"in", input_length - 1>>

PrevFrame(r) ==
    IF r.predictions # <<>>
    THEN <<"pred", At(r.predictions, -1)>>
    ELSE <<"in", input_length - 1>>

\* if t >= seq_len (the decode)
DecodesAlways(tt) == TRUE

DecodesAt(tt) == tt >= input_length

\* the h_t, c_t, m_t handed to self.rnn_block
FreshState(c, r) == <<"zeros", c, 0>>

StateArg(c, r) == r.hcm

\* a BatchNorm2d layer of the encoder or decoder runs in call c: it reads
\* the running statistics (to normalise with them in evaluation mode, to
\* update them in training mode)
BNRead(c, r) ==
    [r EXCEPT !.cross = IF bn_writer \notin {0, c}
                        THEN @ \cup {bn_writer} ELSE @,
              !.deps = IF ~training /\ bn_writer \notin {0, c}
                       THEN @ \cup {bn_writer} ELSE @]

\* ... and in training mode writes them
BNWriter(c) == IF training THEN c ELSE bn_writer

InitDriver ==
    /\ input_length \in 1..MaxInputLen
    /\ pred_length \in 0..MaxPredLen
    /\ teacher_forcing \in BOOLEAN
    /\ training \in BOOLEAN
    /\ bn_writer = 0
    /\ fwd = [c \in ForwardCalls |->
                [pc |-> "idle", mode |-> FALSE, variant |-> 0,
                 e |-> 0, tt |-> 0,
                 encoder_outputs |-> <<>>, encoder_skips |-> <<>>,
                 skip |-> UnboundEnc, current_skip |-> UnboundEnc,
                 predictions |-> <<>>,
                 hcm |-> <<"unset", c, 0>>, zero_inits |-> 0,
                 feeds |-> <<>>, decodes |-> <<>>,
                 cross |-> {}, deps |-> {}]]
    /\ IndexerIdle
    /\ SchedIdle
    /\ ExtrasIdle

\* model.train() / model.eval(): train_epoch and evaluate call them before
\* their loops, never while a forward call runs
SetMode ==
    /\ \A c \in ForwardCalls : fwd[c].pc \in {"idle", "returned", "raised"}
    /\ training' = ~training
    /\ UNCHANGED <<input_length, pred_length, teacher_forcing, bn_writer, fwd>>
    /\ UNCHANGED <<ivars, svars, evars>>

\* a forward call is entered
Begin ==
    /\ \E c \in ForwardCalls :
           /\ fwd[c].pc = "idle"
           /\ \E v \in CudnnVariants :
                  fwd' = [fwd EXCEPT ![c].pc = "encode",
                                     ![c].mode = training,
                                     ![c].variant = v]
    /\ UNCHANGED <<input_length, pred_length, teacher_forcing, training,
                   bn_writer>>
    /\ UNCHANGED <<ivars, svars, evars>>

\* one iteration of "for t in range(seq_len)": enc_out, skip =
\* self.encoder(input_sequence[:, t])
EncodeInput ==
    /\ \E c \in ForwardCalls :
           LET r == fwd[c]
               enc == EncCall("loop", r.e, <<"in", r.e>>)
           IN /\ r.pc = "encode"
              /\ r.e < input_length
              /\ fwd' = [fwd EXCEPT ![c] =
                     [BNRead(c, r) EXCEPT
                         !.encoder_outputs = Append(@, enc),
                         !.encoder_skips = Append(@, enc),
                         !.skip = enc,
                         !.e = @ + 1]]
              /\ bn_writer' = BNWriter(c)
    /\ UNCHANGED <<input_length, pred_length, teacher_forcing, training>>
    /\ UNCHANGED <<ivars, svars, evars>>

\* predictions = [], and h_t, c_t, m_t = lists of zero tensors
InitState ==
    /\ \E c \in ForwardCalls :
           LET r == fwd[c]
           IN /\ r.pc = "encode"
              /\ r.e >= input_length
              /\ fwd' = [fwd EXCEPT ![c].hcm = <<"zeros", c, 0>>,
                                    ![c].zero_inits = @ + 1,
                                    ![c].predictions = <<>>,
                                    ![c].tt = 0,
                                    ![c].pc = "loop"]
    /\ UNCHANGED <<input_length, pred_length, teacher_forcing, training,
                   bn_writer>>
    /\ UNCHANGED <<ivars, svars, evars>>

\* one iteration of "for t in range(seq_len + pred_length)" that raises
\* nothing: the choice of x, the scheduler call, the decode
Step ==
    /\ \E c \in ForwardCalls :
           LET r == fwd[c]
               tt == r.tt
               stored == Predicting(tt) /\ UsesStored
               reenc == Predicting(tt) /\ ~UsesStored
               x == IF ~Predicting(tt) THEN At(r.encoder_outputs, tt)
                    ELSE IF stored
                         THEN At(r.encoder_outputs, StoredIndex(tt))
                         ELSE EncCall("step", tt, PrevFrame(r))
               skip == IF reenc THEN x ELSE r.skip
               current_skip == IF Predicting(tt) THEN skip ELSE r.current_skip
               state_in == StateArg(c, r)
               state_out == <<"state", c, tt>>
               feed == [t |-> tt, x |-> x, window |-> 1,
                        state_in |-> state_in, state_out |-> state_out]
               dec == [t |-> tt, rnn_out |-> state_out, x |-> x,
                       skip |-> current_skip]
               bn == reenc \/ DecodesAt(tt)
               r1 == IF bn THEN BNRead(c, r) ELSE r
           IN /\ r.pc = "loop"
              /\ tt < TotalSteps
              /\ ~(stored /\ StoredIndex(tt) >= Len(r.encoder_outputs))
              /\ fwd' = [fwd EXCEPT ![c] =
                     [r1 EXCEPT
                         !.skip = skip,
                         !.current_skip = current_skip,
                         !.encoder_skips =
                             IF Predicting(tt) /\ training
                             THEN Append(@, skip) ELSE @,
                         !.hcm = state_out,
                         !.feeds = Append(@, feed),
                         !.decodes =
                             IF DecodesAt(tt) THEN Append(@, dec) ELSE @,
                         !.predictions =
                             IF DecodesAt(tt) THEN Append(@, tt) ELSE @,
                         !.tt = @ + 1]]
              /\ bn_writer' = IF bn THEN BNWriter(c) ELSE bn_writer
    /\ UNCHANGED <<input_length, pred_length, teacher_forcing, training>>
    /\ UNCHANGED <<ivars, svars, evars>>

\* the same iteration when encoder_outputs[t - seq_len] is out of range:
\* IndexError leaves forward
StepRaises ==
    /\ \E c \in ForwardCalls :
           LET r == fwd[c]
           IN /\ r.pc = "loop"
              /\ r.tt < TotalSteps
              /\ Predicting(r.tt) /\ UsesStored
              /\ StoredIndex(r.tt) >= Len(r.encoder_outputs)
              /\ fwd' = [fwd EXCEPT ![c].pc = "raised"]
    /\ UNCHANGED <<input_length, pred_length, teacher_forcing, training,
                   bn_writer>>
    /\ UNCHANGED <<ivars, svars, evars>>

\* return torch.stack(predictions, dim=1), total_decouple_loss: torch.stack
\* raises on an empty list
Return ==
    /\ \E c \in ForwardCalls :
           LET r == fwd[c]
           IN /\ r.pc = "loop"
              /\ r.tt >= TotalSteps
              /\ fwd' = [fwd EXCEPT ![c].pc =
                     IF r.predictions = <<>> THEN "raised" ELSE "returned"]
    /\ UNCHANGED <<input_length, pred_length, teacher_forcing, training,
                   bn_writer>>
    /\ UNCHANGED <<ivars, svars, evars>>

NextDriver ==
    \/ SetMode
    \/ Begin
    \/ EncodeInput
    \/ InitState
    \/ Step
    \/ StepRaises
    \/ Return

SpecDriver == InitDriver /\ [][NextDriver]_vars

\* ------------------------------------------------ indexer: claims C1 - C5

\* __init__ has returned
Constructed == ipc \in {"done", "evaluated", "zero_division"}

FileIdx == 0..(Len(files) - 1)

\* the file opens and has a band
FileIsValid(f) == At(files, f) = "ok"

\* every file of the window starting at s is valid
WindowAllValid(s) == \A j \in 0..(seq_length - 1) : FileIsValid(s + j)

ExpectedStarts ==
    {s \in 0..(Len(files) - seq_length) : WindowAllValid(s)}

\* C1: once the dataset is constructed, valid_indices is the ascending list
\* of exactly the start offsets s in [0, N-L] whose L files are all valid;
\* with every file valid it has max(0, N-L+1) entries, and one invalid file
\* at position j removes exactly the starts s with s <= j <= s+L-1.
C1_ValidIndicesExact ==
    Constructed =>
        /\ \A a, b \in DOMAIN valid_indices :
               a < b => valid_indices[a] < valid_indices[b]
        /\ Range(valid_indices) = ExpectedStarts
        /\ (\A f \in FileIdx : FileIsValid(f)) =>
               Len(valid_indices) = Max(0, Len(files) - seq_length + 1)
        /\ \A j \in FileIdx :
               (\A f \in FileIdx : FileIsValid(f) <=> f # j) =>
                   Range(valid_indices) =
                       {s \in 0..(Len(files) - seq_length) :
                            ~(s <= j /\ j <= s + seq_length - 1)}

\* a constructed dataset in which one invalid file removed some windows and
\* left others
C1_Witness ==
    /\ Constructed
    /\ \E j \in FileIdx : \A f \in FileIdx : FileIsValid(f) <=> f # j
    /\ Len(valid_indices) >= 1
    /\ Len(valid_indices) < total_possible_windows

\* C2: every file is opened at most once during the scan, and a flag once
\* written to file_validity is never changed by a later step.
C2_Memoized ==
    [][/\ \A f \in DOMAIN openCount : openCount'[f] <= 1
       /\ \A f \in DOMAIN file_validity :
              /\ f \in DOMAIN file_validity'
              /\ file_validity'[f] = file_validity[f]]_vars

\* a finished scan in which overlapping windows shared files that were each
\* opened once
C2_Witness ==
    /\ Constructed
    /\ seq_length >= 2
    /\ Len(valid_indices) >= 2
    /\ \A f \in FileIdx : openCount[f] = 1

\* C3: whatever way a file check fails, the file is recorded as invalid and
\* no failure leaves dataset construction.
C3_NoFailurePropagates ==
    /\ ipc # "raised"
    /\ \A f \in FileIdx :
           (openCount[f] > 0 /\ ~FileIsValid(f)) =>
               (f \in DOMAIN file_validity /\ ~file_validity[f])

\* C4: an empty file list makes construction fail with an explicit error:
\* it never returns a dataset, nor fails later at the division by
\* len(loader).
C4_EmptyListRejected ==
    Len(files) = 0 => ~Constructed

\* C5: after construction invalid_files is the number of invalid files of
\* the whole file list (taken over lists whose files all open or raise
\* RasterioIOError).
C5_InvalidFilesCountsAll ==
    (Constructed /\ \A f \in FileIdx : ~RaisesUncaught(At(files, f))) =>
        invalid_files = Cardinality({f \in FileIdx : ~FileIsValid(f)})

\* --------------------------------------------- scheduler: claims C6 - C10

CallIdx == DOMAIN calls

\* layer l's H as it stands when the bottom-up pass of timestep tt begins:
\* the caller's value at the first timestep, afterwards what the previous
\* timestep left (layer 0 is invoked in phase 1 only, the others last in
\* phase 2)
HBeforePass(tt, l) ==
    IF tt = 0 THEN InitVal(l)
    ELSE CellOut(tt - 1, IF l = 0 THEN 1 ELSE 2, l)

\* C6 as stated: in the bottom-up pass layer l > 0 receives layer l-1's H as
\* updated earlier in the same pass of the same timestep, and layer 0 the
\* raw timestep input.
C6_BottomUpInputFresh ==
    \A n \in CallIdx :
        calls[n].phase = 1 =>
            calls[n].x = IF calls[n].l = 0
                         THEN XVal(calls[n].t)
                         ELSE CellOut(calls[n].t, 1, calls[n].l - 1)

\* C6 amended: in the bottom-up pass layer l > 0 receives layer l-1's H as it
\* stood when the pass began (layer l-1 is invoked after layer l), and layer
\* 0 the raw timestep input.
C6_BottomUpInputStale ==
    \A n \in CallIdx :
        calls[n].phase = 1 =>
            calls[n].x = IF calls[n].l = 0
                         THEN XVal(calls[n].t)
                         ELSE HBeforePass(calls[n].t, calls[n].l - 1)

\* a bottom-up invocation of a layer above 0 at a timestep after the first,
\* and one of layer 0
C6_Witness ==
    /\ \E n \in CallIdx :
           calls[n].phase = 1 /\ calls[n].l > 0 /\ calls[n].t > 0
    /\ \E n \in CallIdx : calls[n].phase = 1 /\ calls[n].l = 0

\* C7 as stated: in the top-down pass every layer l >= 1 receives layer
\* l-1's H as the bottom-up pass of the same timestep left it.
C7_TopDownInputFromBottomUp ==
    \A n \in CallIdx :
        calls[n].phase = 2 =>
            calls[n].x = CellOut(calls[n].t, 1, calls[n].l - 1)

\* C7 amended: in the top-down pass layer 1 receives layer 0's H as the
\* bottom-up pass of the same timestep left it, and every layer l >= 2
\* receives layer l-1's H as updated just before in the same top-down pass.
C7_TopDownInputChained ==
    \A n \in CallIdx :
        calls[n].phase = 2 =>
            calls[n].x = CellOut(calls[n].t,
                                 IF calls[n].l = 1 THEN 1 ELSE 2,
                                 calls[n].l - 1)

\* top-down invocations of layer 1 and of a layer above it
C7_Witness ==
    /\ \E n \in CallIdx : calls[n].phase = 2 /\ calls[n].l = 1
    /\ \E n \in CallIdx : calls[n].phase = 2 /\ calls[n].l >= 2

\* C8: in the bottom-up pass every layer below the top receives as m_upper
\* the M of layer l+1 as already updated in this timestep's bottom-up pass,
\* and the top layer receives None.
C8_BottomUpMUpper ==
    \A n \in CallIdx :
        calls[n].phase = 1 =>
            calls[n].m_upper = IF calls[n].l < num_layers - 1
                               THEN CellOut(calls[n].t, 1, calls[n].l + 1)
                               ELSE NoneVal

\* bottom-up invocations of the top layer and of a layer below it, at a
\* timestep after the first
C8_Witness ==
    /\ \E n \in CallIdx :
           /\ calls[n].phase = 1
           /\ calls[n].l < num_layers - 1
           /\ calls[n].t > 0
    /\ \E n \in CallIdx : calls[n].phase = 1 /\ calls[n].l = num_layers - 1

\* C9: in the top-down pass every layer l >= 1 receives as m_upper the M of
\* layer l-1 as updated in phase 1 of the same timestep.
C9_TopDownMUpperFromPhase1 ==
    \A n \in CallIdx :
        calls[n].phase = 2 =>
            calls[n].m_upper = CellOut(calls[n].t, 1, calls[n].l - 1)

\* C10: with num_layers = 1 the top-down pass never invokes a cell, each
\* timestep has exactly one invocation, it receives no m_upper, and the
\* timestep's output is the H that invocation produced.
C10_SingleLayer ==
    num_layers = 1 =>
        /\ \A n \in CallIdx :
               /\ calls[n].phase = 1
               /\ calls[n].l = 0
               /\ calls[n].t = n - 1
               /\ calls[n].m_upper = NoneVal
        /\ Len(calls) = (IF spc = "top_down" THEN t + 1 ELSE t)
        /\ Len(output_inner) = t
        /\ \A n \in DOMAIN output_inner :
               output_inner[n] = CellOut(n - 1, 1, 0)
        /\ spc = "returned" =>
               Len(calls) = seq_len /\ Len(output_inner) = seq_len

\* a returned single-layer run over several timesteps
C10_Witness ==
    /\ num_layers = 1
    /\ spc = "returned"
    /\ seq_len >= 2
    /\ Len(calls) = seq_len

\* -------------------------------------------- scheduler: claims C11 - C13

\* the invocations of timestep tt made so far, in order, as <<phase, l>>
CallsOfStep(tt) ==
    LET pick(c) == c.t = tt
        sel == SelectSeq(calls, pick)
    IN [n \in DOMAIN sel |-> <<sel[n].phase, sel[n].l>>]

\* the invocations of one whole timestep: phase 1 over layers num_layers-1
\* down to 0, then phase 2 over layers 1 up to num_layers-1
FullStep ==
    [n \in 1..(2 * num_layers - 1) |->
        IF n <= num_layers
        THEN <<1, num_layers - n>>
        ELSE <<2, n - num_layers>>]

\* what the latest invocation of layer l before invocation n wrote to the
\* layer's state (the caller's value when there is none)
WrittenBefore(n, l) ==
    LET earlier == {a \in 1..(n - 1) : calls[a].l = l}
    IN IF earlier = {} THEN InitVal(l)
       ELSE LET a == CHOOSE a \in earlier : \A b \in earlier : b <= a
            IN CellOut(calls[a].t, calls[a].phase, l)

\* C11: invocations are strictly sequential: an invocation of timestep t+1
\* is made only after every invocation of timestep t, each invocation reads
\* the state its layer's previous invocation wrote, and
\* within a timestep all bottom-up invocations (layers num_layers-1 down to
\* 0) come before the first top-down invocation (layers 1 up to
\* num_layers-1).
C11_StrictOrder ==
    /\ \A a, b \in CallIdx : a < b => calls[a].t <= calls[b].t
    /\ \A n \in CallIdx :
           /\ \A tt \in 0..(calls[n].t - 1) : CallsOfStep(tt) = FullStep
           /\ calls[n].h_prev = WrittenBefore(n, calls[n].l)
           /\ calls[n].c_prev = WrittenBefore(n, calls[n].l)
           /\ calls[n].m_prev = WrittenBefore(n, calls[n].l)
    /\ \A tt \in 0..(seq_len - 1) :
           /\ Len(CallsOfStep(tt)) <= Len(FullStep)
           /\ CallsOfStep(tt) = SubSeq(FullStep, 1, Len(CallsOfStep(tt)))

\* a run that has begun its third timestep with more than one layer
C11_Witness ==
    /\ num_layers >= 2
    /\ \E n \in CallIdx : calls[n].t = 2 /\ calls[n].phase = 2

\* C12: the scheduler returns exactly seq_len outputs in timestep order, and
\* output t is the top layer's H as it stands after the top-down pass of
\* timestep t.
C12_OutputsTopLayer ==
    /\ Len(output_inner) = t
    /\ \A n \in DOMAIN output_inner :
           output_inner[n] =
               CellOut(n - 1, IF num_layers = 1 THEN 1 ELSE 2, num_layers - 1)
    /\ spc = "returned" => Len(output_inner) = seq_len

\* a returned run of several layers and timesteps
C12_Witness ==
    /\ spc = "returned"
    /\ num_layers >= 2
    /\ seq_len >= 2
    /\ Len(output_inner) = seq_len

\* C13: every cell loss being in [0,2], the returned loss (accumulated loss
\* over seq_len * num_layers) is in [0,2].
C13_AveragedLossInRange ==
    spc = "returned" =>
        /\ 0 <= returned_loss[1]
        /\ returned_loss[1] <= 2 * returned_loss[2]

\* ----------------------------------------------- driver: claims C14 - C20

\* the call uses the stored encodings after the input window
TeacherForced(c) == teacher_forcing /\ fwd[c].mode

C15_TeacherForcingOnlyInTraining ==
    \A c \in ForwardCalls :
        \A n \in DOMAIN fwd[c].feeds :
            LET f == fwd[c].feeds[n]
                j == f.t - input_length
            IN f.t >= input_length =>
                   IF TeacherForced(c)
                   THEN f.x = EncCall("loop", j, <<"in", j>>)
                   ELSE f.x[1] = "step" /\ f.x[2] = f.t

\* teacher_forcing is set; one call predicted in training mode and another
\* in evaluation mode
C15_Witness ==
    /\ teacher_forcing
    /\ \E c \in ForwardCalls :
           fwd[c].pc = "returned" /\ fwd[c].mode
    /\ \E c \in ForwardCalls :
           fwd[c].pc = "returned" /\ ~fwd[c].mode

\* C16 as stated: on the autoregressive path every step t >= input_length,
\* the first one included, feeds the re-encoding of the previous step's
\* decoded prediction.
C16_FeedsPreviousPrediction ==
    \A c \in ForwardCalls :
        \A n \in DOMAIN fwd[c].feeds :
            LET f == fwd[c].feeds[n]
            IN (f.t >= input_length /\ ~TeacherForced(c)) =>
                   f.x = EncCall("step", f.t, <<"pred", f.t - 1>>)

\* C16 amended: on the autoregressive path the first prediction step
\* t = input_length feeds the re-encoding of the last input frame, and every
\* step t > input_length the re-encoding of the previous step's decoded
\* prediction.
C16_FeedsPreviousFrame ==
    \A c \in ForwardCalls :
        \A n \in DOMAIN fwd[c].feeds :
            LET f == fwd[c].feeds[n]
            IN (f.t >= input_length /\ ~TeacherForced(c)) =>
                   f.x = EncCall("step", f.t,
                                 IF f.t = input_length
                                 THEN <<"in", input_length - 1>>
                                 ELSE <<"pred", f.t - 1>>)

\* an autoregressive call that has fed a step after the first prediction
\* step
C16_Witness ==
    \E c \in ForwardCalls :
        /\ ~TeacherForced(c)
        /\ \E n \in DOMAIN fwd[c].feeds : fwd[c].feeds[n].t > input_length

\* C17: at every prediction step the skip connection given to the decoder
\* comes from the encoder call that produced the feature map fed to the
\* scheduler at that step.
C17_SkipPairedWithFeed ==
    \A c \in ForwardCalls :
        \A n \in DOMAIN fwd[c].decodes :
            fwd[c].decodes[n].skip = fwd[c].decodes[n].x

\* C18: forward raises nothing and returns exactly pred_length frames, frame
\* k being the one decoded at step input_length + k.
C18_ReturnsPredLengthFrames ==
    \A c \in ForwardCalls :
        /\ fwd[c].pc # "raised"
        /\ fwd[c].pc = "returned" =>
               /\ Len(fwd[c].predictions) = pred_length
               /\ \A n \in DOMAIN fwd[c].predictions :
                      fwd[c].predictions[n] = input_length + n - 1

\* each call zero-initialises its own state once, before step 0; step t+1
\* receives what step t returned; a call only ever passes its own state
OwnsState(c) ==
    LET r == fwd[c]
    IN /\ r.zero_inits <= 1
       /\ r.pc \in {"loop", "returned"} => r.zero_inits = 1
       /\ \A n \in DOMAIN r.feeds :
              /\ r.zero_inits = 1
              /\ r.feeds[n].state_in[2] = c
              /\ r.feeds[n].state_in =
                     IF n = 1 THEN <<"zeros", c, 0>>
                     ELSE r.feeds[n - 1].state_out

ResultOf(c) ==
    [mode |-> fwd[c].mode, stats |-> fwd[c].deps,
     variant |-> fwd[c].variant, predictions |-> fwd[c].predictions]

\* C20: two runs with the same weights, mode flags and input return the same
\* predictions and loss, and a run's result depends on no earlier run.
C20_Deterministic ==
    /\ \A c1, c2 \in ForwardCalls :
           (/\ fwd[c1].pc = "returned"
            /\ fwd[c2].pc = "returned"
            /\ fwd[c1].mode = fwd[c2].mode) => ResultOf(c1) = ResultOf(c2)
    /\ \A c \in ForwardCalls :
           fwd[c].pc = "returned" => fwd[c].deps = {}

\* ==========================================================================
\* SpatiotemporalLSTMCell.forward : the two memories of one cell step
\* ==========================================================================
\* A tensor element is <<class, n>>.  Class "q" is the exact value n / 4
\* (0, 1/4, 1/2, 1 are exact in every float format); the other classes are
\* NaN, the two infinities and the finite non-zero values of a known sign
\* whose magnitude the model does not track.
Q(n) == <<"q", n>>

NaN == <<"nan", 0>>

PInf == <<"pinf", 0>>

NInf == <<"ninf", 0>>

Pos == <<"pos", 0>>

Neg == <<"neg", 0>>

\* m_upper=None
None == <<"none", 0>>

IsNaN(v) == v[1] = "nan"

IsInf(v) == v[1] \in {"pinf", "ninf"}

IsFinite(v) == ~IsNaN(v) /\ ~IsInf(v)

Sgn(v) ==
    IF v[1] = "q" THEN (IF v[2] > 0 THEN 1 ELSE IF v[2] < 0 THEN -1 ELSE 0)
    ELSE IF v[1] \in {"pos", "pinf"} THEN 1 ELSE -1

IsZero(v) == v = Q(0)

SignedInf(sg) == IF sg > 0 THEN PInf ELSE NInf

SignedFinite(sg) == IF sg > 0 THEN Pos ELSE IF sg < 0 THEN Neg ELSE Q(0)

\* a * b: the set of results IEEE arithmetic can give for the two classes
Mul(a, b) ==
    IF IsNaN(a) \/ IsNaN(b) THEN {NaN}
    ELSE IF IsInf(a) \/ IsInf(b)
         THEN (IF IsZero(a) \/ IsZero(b) THEN {NaN}
               ELSE {SignedInf(Sgn(a) * Sgn(b))})
    ELSE IF IsZero(a) \/ IsZero(b) THEN {Q(0)}
    ELSE IF a[1] = "q" /\ b[1] = "q"
         THEN (IF (a[2] * b[2]) % 4 = 0 THEN {Q((a[2] * b[2]) \div 4)}
               ELSE {SignedFinite(Sgn(a) * Sgn(b))})
    ELSE {SignedFinite(Sgn(a) * Sgn(b)), Q(0), SignedInf(Sgn(a) * Sgn(b))}

\* a + b
Add(a, b) ==
    IF IsNaN(a) \/ IsNaN(b) THEN {NaN}
    ELSE IF IsInf(a) /\ IsInf(b) THEN (IF a = b THEN {a} ELSE {NaN})
    ELSE IF IsInf(a) THEN {a}
    ELSE IF IsInf(b) THEN {b}
    ELSE IF a[1] = "q" /\ b[1] = "q" THEN {Q(a[2] + b[2])}
    ELSE IF IsZero(a) THEN {b}
    ELSE IF IsZero(b) THEN {a}
    ELSE IF Sgn(a) = Sgn(b) THEN {SignedFinite(Sgn(a)), SignedInf(Sgn(a))}
    ELSE {Neg, Q(0), Pos}

\* torch.sigmoid: 1/2 at 0, 0 at -inf (and by underflow far below 0), 1 at
\* +inf
Sigmoid(a) ==
    IF IsNaN(a) THEN {NaN}
    ELSE IF a = NInf THEN {Q(0)}
    ELSE IF a = PInf THEN {Q(4)}
    ELSE IF IsZero(a) THEN {Q(2)}
    ELSE IF a = Neg THEN {Q(0), Pos}
    ELSE {Pos}

\* torch.tanh
Tanh(a) ==
    IF IsNaN(a) THEN {NaN}
    ELSE IF a = NInf THEN {Q(-4)}
    ELSE IF a = PInf THEN {Q(4)}
    ELSE IF IsZero(a) THEN {Q(0)}
    ELSE {SignedFinite(Sgn(a))}

MulS(A, B) == UNION {Mul(a, b) : a \in A, b \in B}

AddS(A, B) == UNION {Add(a, b) : a \in A, b \in B}

SigmoidS(A) == UNION {Sigmoid(a) : a \in A}

TanhS(A) == UNION {Tanh(a) : a \in A}

\* what a convolution is: "zero" has every weight and the bias zero,
\* "nonzero" has some weight and the bias non-zero
ConvParams == {"zero", "nonzero"}

\* nn.Conv2d: a weighted sum of the input's elements plus the bias
Conv(w, v) ==
    IF w = "zero" THEN Mul(Q(0), v)
    ELSE IF IsNaN(v) THEN {NaN}
    ELSE IF IsInf(v) THEN {NInf, PInf, NaN}
    ELSE {Neg, Q(0), Pos}

\* the m_prev the cell works with (line 169), m_upper added unsquashed
EffectiveMPrevNoSigmoid(m_prev, m_upper) ==
    IF m_upper = None THEN {m_prev} ELSE Add(m_prev, m_upper)

\* the m_prev the cell works with (lines 168-169)
EffectiveMPrev(m_prev, m_upper) ==
    IF m_upper = None THEN {m_prev} ELSE AddS({m_prev}, Sigmoid(m_upper))

\* combined = self.conv_x(x) + self.conv_h(h_prev): every chunk of the split
Combined(w, x, h_prev) == AddS(Conv(w.conv_x, x), Conv(w.conv_h, h_prev))

\* one memory update (lines 176-179 for C, 182-185 for M): the memory's 1x1
\* convolution, its input and forget gates, and the new memory
MemoryUpdate(conv, gates, prev) ==
    AddS(MulS(SigmoidS(AddS(gates, Conv(conv, prev))), {prev}),
         MulS(SigmoidS(AddS(gates, Conv(conv, prev))), TanhS(gates)))

\* the <<c_new, m_new>> pairs a cell step can return
CellForward(w, x, h_prev, c_prev, m_prev, m_upper) ==
    {<<cn, mn>> :
        cn \in MemoryUpdate(w.conv_c, Combined(w, x, h_prev), c_prev),
        mn \in UNION {MemoryUpdate(w.conv_m, Combined(w, x, h_prev), me) :
                          me \in EffectiveMPrev(m_prev, m_upper)}}

\* the arguments a cell step is called with
CellInputs == {Q(0), Pos, Neg, PInf, NaN}

CellStates == {Q(0), Pos}

CellMUppers == {None, Q(0), Pos, Neg, NInf, NaN}

InitCell ==
    /\ \E w \in [conv_x : ConvParams, conv_h : ConvParams,
                 conv_c : ConvParams, conv_m : ConvParams],
          xx \in CellInputs, hp \in CellStates, cp \in CellStates,
          mp \in CellStates, mu \in CellMUppers :
           cell = [pc |-> "called", weights |-> w, x |-> xx, h_prev |-> hp,
                   c_prev |-> cp, m_prev |-> mp, m_upper |-> mu,
                   c_new |-> None, m_new |-> None]
    /\ IndexerIdle /\ SchedIdle /\ DriverIdle
    /\ ShapesIdle /\ NormalizerIdle /\ SaverIdle /\ TrainerIdle

\* SpatiotemporalLSTMCell.forward
CellStep ==
    /\ cell.pc = "called"
    /\ \E out \in CellForward(cell.weights, cell.x, cell.h_prev, cell.c_prev,
                              cell.m_prev, cell.m_upper) :
           cell' = [cell EXCEPT !.pc = "returned",
                                !.c_new = out[1], !.m_new = out[2]]
    /\ UNCHANGED <<ivars, svars, dvars>>
    /\ UNCHANGED <<shapes, normalizer, saver, trainer>>

NextCell == CellStep

SpecCell == InitCell /\ [][NextCell]_vars

\* ------------------------------------------------------------------- C21
AllWeightsZero ==
    /\ cell.weights.conv_x = "zero" /\ cell.weights.conv_h = "zero"
    /\ cell.weights.conv_c = "zero" /\ cell.weights.conv_m = "zero"

ZeroState ==
    /\ cell.h_prev = Q(0) /\ cell.c_prev = Q(0) /\ cell.m_prev = Q(0)

ShapeError == <<-1, -1, -1>>

Spatial(s) == <<s[2], s[3]>>

\* nn.Conv2d(in_channels, out_channels, 3, padding=1) or a 1x1 convolution:
\* keeps the spatial size, raises on another channel count
Conv2d(in_channels, out_channels, s) ==
    IF s = ShapeError \/ s[1] # in_channels THEN ShapeError
    ELSE <<out_channels, s[2], s[3]>>

\* nn.MaxPool2d(2): raises when an output side would be 0
MaxPool2d(s) ==
    IF s = ShapeError \/ s[2] \div 2 = 0 \/ s[3] \div 2 = 0 THEN ShapeError
    ELSE <<s[1], s[2] \div 2, s[3] \div 2>>

\* F.interpolate(x, size=...): raises when a side of the output is 0
Interpolate(s, size) ==
    IF s = ShapeError \/ size[1] = 0 \/ size[2] = 0 \/ s[2] = 0 \/ s[3] = 0
    THEN ShapeError
    ELSE <<s[1], size[1], size[2]>>

\* t[:, :64, :, :] when t has more than 64 channels
Truncate(s) ==
    IF s = ShapeError THEN ShapeError
    ELSE IF s[1] > SKIP_CHANNELS THEN <<SKIP_CHANNELS, s[2], s[3]>> ELSE s

\* torch.cat([a, b], dim=1)
Cat(a, b) ==
    IF a = ShapeError \/ b = ShapeError \/ Spatial(a) # Spatial(b)
    THEN ShapeError
    ELSE <<a[1] + b[1], a[2], a[3]>>

\* a + b of two tensors of one shape
SameShape(a, b) == IF a = b THEN a ELSE ShapeError

\* UNet_Encoder.forward: <<x2, x1>>
EncoderShapes(frame) ==
    <<Conv2d(ENC1_CHANNELS, ENC2_CHANNELS,
             MaxPool2d(Conv2d(INPUT_DIM, ENC1_CHANNELS, frame))),
      Conv2d(INPUT_DIM, ENC1_CHANNELS, frame)>>

\* the x the cell works with (lines 164-165)
CellResample(x, h_prev) ==
    IF Spatial(x) # Spatial(h_prev) THEN Interpolate(x, Spatial(h_prev))
    ELSE x

\* SpatiotemporalLSTMCell.forward of layer 0: the shape of h_new
CellShapes(x, h_prev, hidden_dim) ==
    IF SameShape(Conv2d(hidden_dim, hidden_dim * GATES,
                        CellResample(x, h_prev)),
                 Conv2d(hidden_dim, hidden_dim * GATES, h_prev)) = ShapeError
    THEN ShapeError
    ELSE h_prev

\* the decoder's concatenation (lines 320-332)
DecoderCat(x, skip) ==
    Cat(Truncate(IF Spatial(x) # Spatial(skip)
                 THEN Interpolate(x, Spatial(skip)) ELSE x),
        Truncate(skip))

\* UNet_Decoder.forward
DecoderShapes(x, skip) ==
    Conv2d(DEC1_OUT_CHANNELS, INPUT_DIM,
           Conv2d(DEC1_IN_CHANNELS, DEC1_OUT_CHANNELS, DecoderCat(x, skip)))

NumHiddenChoices ==
    {DEFAULT_NUM_HIDDEN \div 2, DEFAULT_NUM_HIDDEN, SCRIPT_NUM_HIDDEN,
     DEFAULT_NUM_HIDDEN + SCRIPT_NUM_HIDDEN}

InitShapes ==
    /\ \E nh \in NumHiddenChoices, hh \in 1..MaxSide, ww \in 1..MaxSide :
           shapes = [pc |-> "encode", num_hidden |-> nh, h |-> hh, w |-> ww,
                     x |-> ShapeError, skip |-> ShapeError,
                     h_t |-> ShapeError, rnn_out |-> ShapeError,
                     cat |-> ShapeError, pred |-> ShapeError]
    /\ IndexerIdle /\ SchedIdle /\ DriverIdle
    /\ CellIdle /\ NormalizerIdle /\ SaverIdle /\ TrainerIdle

\* enc_out, skip = self.encoder(input_sequence[:, t])
ShapesEncode ==
    /\ shapes.pc = "encode"
    /\ LET out == EncoderShapes(<<INPUT_DIM, shapes.h, shapes.w>>)
       IN  shapes' = [shapes EXCEPT
                        !.pc = IF out[1] = ShapeError THEN "raised"
                               ELSE "init",
                        !.x = out[1], !.skip = out[2]]
    /\ UNCHANGED <<ivars, svars, dvars>>
    /\ UNCHANGED <<cell, normalizer, saver, trainer>>

\* h_t = [torch.zeros(batch_size, self.num_hidden, h//4, w//4) ...]
ShapesZeroInit ==
    /\ shapes.pc = "init"
    /\ shapes' = [shapes EXCEPT
                    !.pc = "cell",
                    !.h_t = <<shapes.num_hidden, shapes.h \div 4,
                              shapes.w \div 4>>]
    /\ UNCHANGED <<ivars, svars, dvars>>
    /\ UNCHANGED <<cell, normalizer, saver, trainer>>

\* self.rnn_block(x.unsqueeze(1), h_t, c_t, m_t): layer 0 takes x, the upper
\* layers take h_t[l-1], whose shape is that of their own state
ShapesCell ==
    /\ shapes.pc = "cell"
    /\ LET out == CellShapes(shapes.x, shapes.h_t, shapes.num_hidden)
       IN  shapes' = [shapes EXCEPT
                        !.pc = IF out = ShapeError THEN "raised"
                               ELSE "decode",
                        !.rnn_out = out]
    /\ UNCHANGED <<ivars, svars, dvars>>
    /\ UNCHANGED <<cell, normalizer, saver, trainer>>

\* pred = self.decoder(rnn_out.squeeze(1), current_skip)
ShapesDecode ==
    /\ shapes.pc = "decode"
    /\ LET out == DecoderShapes(shapes.rnn_out, shapes.skip)
       IN  shapes' = [shapes EXCEPT
                        !.pc = IF out = ShapeError THEN "raised"
                               ELSE "decoded",
                        !.cat = DecoderCat(shapes.rnn_out, shapes.skip),
                        !.pred = out]
    /\ UNCHANGED <<ivars, svars, dvars>>
    /\ UNCHANGED <<cell, normalizer, saver, trainer>>

NextShapes == ShapesEncode \/ ShapesZeroInit \/ ShapesCell \/ ShapesDecode

SpecShapes == InitShapes /\ [][NextShapes]_vars

\* ------------------------------------------------------------------- C22
\* C22: for every spatial size and every num_hidden (the constructor default
\* 64 included) the tensors meeting at the cell input and at the decoder
\* input are reconciled: no shape error is raised and the decoder's
\* concatenation has exactly 128 channels.
C22_NeverRejects ==
    /\ shapes.pc # "raised"
    /\ shapes.pc = "decoded" => shapes.cat[1] = DEC1_IN_CHANNELS

\* ------------------------------------------------------------------- C25
\* C25: the spatial size (h//4, w//4) of the zero-initialised H/C/M equals
\* the spatial size of the encoder feature map fed to the scheduler, so the
\* cell never resamples x.
C25_StateMatchesEncoder ==
    shapes.pc = "cell" => Spatial(shapes.h_t) = Spatial(shapes.x)

\* ==========================================================================
\* normalize_image
\* ==========================================================================
\* A pixel is NaN, PInf, NInf or a finite number <<unit, n>>:
\*   <<"raw", j>>  the raw value with log1p(value + 1e-8) = j for j >= 0,
\*                 and a negative value (below -1) for j < 0;
\*   <<"dbz", n>>  n dBZ;
\*   <<"unit", n>> the scaled value n / (max_dbz - min_dbz).
Raw(j) == <<"raw", j>>

Dbz(n) == <<"dbz", n>>

Unit(n) == <<"unit", n>>

\* np.nan_to_num(img, nan=..., posinf=..., neginf=...)
NanToNum(v, nan, posinf, neginf) ==
    IF IsNaN(v) THEN nan
    ELSE IF v = PInf THEN posinf
    ELSE IF v = NInf THEN neginf
    ELSE v

\* np.clip without the upper bound
ClipLowOnly(v, lo, hi) ==
    IF IsNaN(v) THEN v
    ELSE IF v = NInf \/ (IsFinite(v) /\ v[2] < lo[2]) THEN lo
    ELSE v

\* np.clip(img, lo, hi); hi = None leaves the top open; NaN stays NaN
Clip(v, lo, hi) ==
    IF IsNaN(v) THEN v
    ELSE IF v = NInf \/ (IsFinite(v) /\ v[2] < lo[2]) THEN lo
    ELSE IF hi # None /\ (v = PInf \/ (IsFinite(v) /\ v[2] > hi[2])) THEN hi
    ELSE v

\* 10 * np.log1p(img + 1e-8): NaN (with a warning, no exception) below -1
Log1pDbz(v) ==
    IF IsNaN(v) \/ v = NInf THEN NaN
    ELSE IF v = PInf THEN PInf
    ELSE IF v[2] < 0 THEN NaN
    ELSE Dbz(DBZ_FACTOR * v[2])

\* (img - min_dbz) / (max_dbz - min_dbz)
Scale(v) == IF IsFinite(v) THEN Unit(v[2] - MIN_DBZ) ELSE v

\* normalize_image on one pixel, line by line
NormalizePixel(v) ==
    NanToNum(
        Scale(Clip(Log1pDbz(Clip(NanToNum(v, Raw(0), Raw(0), Raw(0)),
                                 Raw(0), None)),
                   Dbz(MIN_DBZ), Dbz(MAX_DBZ))),
        Unit(0), Unit(MAX_DBZ - MIN_DBZ), Unit(0))

\* normalize_image: element-wise, the shape is kept
NormalizeImage(img) == [p \in DOMAIN img |-> NormalizePixel(img[p])]

Pixels == {NaN, PInf, NInf} \cup {Raw(j) : j \in (-1)..MaxLogUnits}

InitNormalizer ==
    /\ \E n \in 0..MaxPixels : \E img \in [1..n -> Pixels] :
           normalizer = [pc |-> "called", img |-> img, out |-> <<>>]
    /\ IndexerIdle /\ SchedIdle /\ DriverIdle
    /\ CellIdle /\ ShapesIdle /\ SaverIdle /\ TrainerIdle

\* img = normalize_image(img)
Normalize ==
    /\ normalizer.pc = "called"
    /\ normalizer' = [normalizer EXCEPT
                        !.pc = "returned",
                        !.out = NormalizeImage(normalizer.img)]
    /\ UNCHANGED <<ivars, svars, dvars>>
    /\ UNCHANGED <<cell, shapes, saver, trainer>>

NextNormalizer == Normalize

SpecNormalizer == InitNormalizer /\ [][NextNormalizer]_vars

\* ------------------------------------------------------------------- C23
InUnitInterval(v) ==
    v[1] = "unit" /\ 0 <= v[2] /\ v[2] <= MAX_DBZ - MIN_DBZ

\* C23: for every input array, whose elements may be NaN, +Inf, -Inf,
\* negative, zero or positive finite, normalize_image raises nothing and
\* returns an array of the same shape whose elements are all finite and in
\* [0, 1].
C23_NormalizedInUnitInterval ==
    normalizer.pc = "returned"
        => /\ Len(normalizer.out) = Len(normalizer.img)
           /\ \A p \in DOMAIN normalizer.out :
                  InUnitInterval(normalizer.out[p])

\* an array holding a non-finite pixel and a pixel above 70 dBZ
C23_Witness ==
    /\ normalizer.pc = "returned"
    /\ Len(normalizer.img) = 2
    /\ normalizer.img[1] \in {NaN, PInf, NInf, Raw(-1)}
    /\ normalizer.img[2] = Raw(MaxLogUnits)
    /\ DBZ_FACTOR * MaxLogUnits > MAX_DBZ
    /\ normalizer.out = <<Unit(0), Unit(MAX_DBZ - MIN_DBZ)>>

\* ==========================================================================
\* save_predictions
\* ==========================================================================
DigitChars == <<"0", "1", "2", "3", "4", "5", "6", "7", "8", "9">>

\* the decimal digits of n >= 0, as characters
RECURSIVE Digits(_)
Digits(n) ==
    IF n < 10 THEN <<DigitChars[n + 1]>>
    ELSE Append(Digits(n \div 10), DigitChars[(n % 10) + 1])

\* format spec "0{width}d": zero-padded on the left to at least width
RECURSIVE ZeroPad(_, _)
ZeroPad(ds, width) ==
    IF Len(ds) >= width THEN ds ELSE ZeroPad(<<"0">> \o ds, width)

\* f"pred_{batch_idx:04d}_t{t+1}.tiff"
FileName(batch_idx, tt) ==
    <<"p", "r", "e", "d", "_">> \o ZeroPad(Digits(batch_idx), PAD_WIDTH)
        \o <<"_", "t">> \o Digits(tt + 1) \o <<".", "t", "i", "f", "f">>

\* the two variants of save_predictions: the one writing with PIL (no
\* transform parameter) and the one writing with rasterio
SaverVariants == {"pil", "rasterio"}

\* Image.from_origin(0, frame.shape[0], 1, 1): PIL.Image has no from_origin
\* (rasterio.transform.from_origin is imported but not the one called), so
\* evaluating it raises AttributeError
DefaultTransformRaises(variant, transform) ==
    variant = "rasterio" /\ transform = "none"

InitSaver ==
    /\ \E v \in SaverVariants, tr \in {"none", "given"},
          b \in 0..MaxBatch, f \in 0..MaxFrames :
           /\ v = "pil" => tr = "none"
           /\ saver = [pc |-> "loop", variant |-> v, transform |-> tr,
                       B |-> b, T |-> f, batch_idx |-> 0, t |-> 0,
                       written |-> {}]
    /\ IndexerIdle /\ SchedIdle /\ DriverIdle
    /\ CellIdle /\ ShapesIdle /\ NormalizerIdle /\ TrainerIdle

\* one iteration of the inner loop: the frame is written to its file
SaveFrame ==
    /\ saver.pc = "loop"
    /\ saver.batch_idx < saver.B
    /\ saver.t < saver.T
    /\ ~DefaultTransformRaises(saver.variant, saver.transform)
    /\ saver' = [saver EXCEPT
                   !.written = saver.written
                                 \cup {FileName(saver.batch_idx, saver.t)},
                   !.t = saver.t + 1]
    /\ UNCHANGED <<ivars, svars, dvars>>
    /\ UNCHANGED <<cell, shapes, normalizer, trainer>>

\* one iteration of the inner loop: "if transform is None" raises
SaveFrameRaises ==
    /\ saver.pc = "loop"
    /\ saver.batch_idx < saver.B
    /\ saver.t < saver.T
    /\ DefaultTransformRaises(saver.variant, saver.transform)
    /\ saver' = [saver EXCEPT !.pc = "raised"]
    /\ UNCHANGED <<ivars, svars, dvars>>
    /\ UNCHANGED <<cell, shapes, normalizer, trainer>>

\* the inner loop is exhausted: the next sequence of the batch
NextSequence ==
    /\ saver.pc = "loop"
    /\ saver.batch_idx < saver.B
    /\ saver.t >= saver.T
    /\ saver' = [saver EXCEPT !.batch_idx = saver.batch_idx + 1, !.t = 0]
    /\ UNCHANGED <<ivars, svars, dvars>>
    /\ UNCHANGED <<cell, shapes, normalizer, trainer>>

\* the outer loop is exhausted: save_predictions returns
SaveReturns ==
    /\ saver.pc = "loop"
    /\ saver.batch_idx >= saver.B
    /\ saver' = [saver EXCEPT !.pc = "returned"]
    /\ UNCHANGED <<ivars, svars, dvars>>
    /\ UNCHANGED <<cell, shapes, normalizer, trainer>>

NextSaver == SaveFrame \/ SaveFrameRaises \/ NextSequence \/ SaveReturns

SpecSaver == InitSaver /\ [][NextSaver]_vars

\* ------------------------------------------------------------------- C24
\* C24: for B batch items and T timesteps save_predictions completes and
\* writes exactly B x T files, one per (batch item, timestep) pair, named
\* pred_{batch:04d}_t{timestep+1}.tiff, distinct pairs giving distinct
\* names; also when no transform is supplied.
C24_WritesOneFilePerFrame ==
    /\ saver.pc # "raised"
    /\ saver.pc = "returned"
           => /\ Cardinality(saver.written) = saver.B * saver.T
              /\ saver.written
                   = {FileName(b, f) : b \in 0..(saver.B - 1),
                                       f \in 0..(saver.T - 1)}

\* ------------------------------------------------------------------- C26
\* the number of cell invocations made at timestep tt on layer l
InvocationsOf(tt, l) ==
    Cardinality({n \in DOMAIN calls : calls[n].t = tt /\ calls[n].l = l})

\* C26: in one scheduler call the number of cell invocations whose loss is
\* accumulated is seq_len * num_layers, every layer being invoked exactly
\* once per timestep, so the returned loss is the mean of the per-invocation
\* losses (the divisor equals the number of invocations).
C26_LossIsMeanOverInvocations ==
    spc = "returned" =>
        /\ Len(calls) = seq_len * num_layers
        /\ \A tt \in 0..(seq_len - 1), l \in 0..(num_layers - 1) :
               InvocationsOf(tt, l) = 1
        /\ returned_loss[2] = Len(calls)

\* ==========================================================================
\* __main__ : the training loop and its best checkpoint
\* ==========================================================================
\* float('inf')
Inf == PInf

\* a < b on Python floats: False whenever an operand is NaN
FloatLess(a, b) ==
    /\ ~IsNaN(a) /\ ~IsNaN(b)
    /\ a # PInf /\ b # NInf
    /\ a = NInf \/ b = PInf \/ (IsFinite(a) /\ IsFinite(b) /\ a[2] < b[2])

\* the values val_metrics['MAE'] can take: a mean of absolute differences,
\* NaN or infinite when the predictions are
MaeValues == {NaN, PInf} \cup {Q(n) : n \in 0..MaxMae}

\* best_model.pth: absent, left by an earlier run, or written in an epoch
NoFile == <<"absent", 0>>

EarlierRun == <<"earlier_run", 0>>

SavedAt(epoch) == <<"epoch", epoch>>

\* if val_metrics['MAE'] < best_val_loss
Improves(mae, best) == FloatLess(mae, best)

InitTrainer ==
    /\ \E n \in 1..MaxEpochs, f \in {NoFile, EarlierRun} :
           trainer = [pc |-> "loop", num_epochs |-> n, epoch |-> 0,
                      best_val_loss |-> Inf, checkpoint |-> f,
                      maes |-> <<>>, saves |-> {}, loaded |-> NoFile]
    /\ IndexerIdle /\ SchedIdle /\ DriverIdle
    /\ CellIdle /\ ShapesIdle /\ NormalizerIdle /\ SaverIdle

\* one iteration of "for epoch in range(NUM_EPOCHS)"
TrainEpoch ==
    /\ trainer.pc = "loop"
    /\ trainer.epoch < trainer.num_epochs
    /\ \E mae \in MaeValues :
           trainer' = [trainer EXCEPT
                         !.epoch = trainer.epoch + 1,
                         !.maes = Append(trainer.maes, mae),
                         !.best_val_loss =
                             IF Improves(mae, trainer.best_val_loss)
                             THEN mae ELSE trainer.best_val_loss,
                         !.checkpoint =
                             IF Improves(mae, trainer.best_val_loss)
                             THEN SavedAt(trainer.epoch)
                             ELSE trainer.checkpoint,
                         !.saves =
                             IF Improves(mae, trainer.best_val_loss)
                             THEN trainer.saves \cup {trainer.epoch}
                             ELSE trainer.saves]
    /\ UNCHANGED <<ivars, svars, dvars>>
    /\ UNCHANGED <<cell, shapes, normalizer, saver>>

\* model.load_state_dict(torch.load(".../best_model.pth")) after the loop
LoadBest ==
    /\ trainer.pc = "loop"
    /\ trainer.epoch >= trainer.num_epochs
    /\ trainer.checkpoint # NoFile
    /\ trainer' = [trainer EXCEPT !.pc = "loaded",
                                  !.loaded = trainer.checkpoint]
    /\ UNCHANGED <<ivars, svars, dvars>>
    /\ UNCHANGED <<cell, shapes, normalizer, saver>>

\* torch.load of a file that does not exist: FileNotFoundError
LoadBestRaises ==
    /\ trainer.pc = "loop"
    /\ trainer.epoch >= trainer.num_epochs
    /\ trainer.checkpoint = NoFile
    /\ trainer' = [trainer EXCEPT !.pc = "raised"]
    /\ UNCHANGED <<ivars, svars, dvars>>
    /\ UNCHANGED <<cell, shapes, normalizer, saver>>

NextTrainer == TrainEpoch \/ LoadBest \/ LoadBestRaises

SpecTrainer == InitTrainer /\ [][NextTrainer]_vars

\* ------------------------------------------------------------------- C27
\* epoch e (0-based) has a validation MAE strictly below every earlier one
StrictlyBelowEarlier(e) ==
    \A j \in 0..(e - 1) : FloatLess(At(trainer.maes, e), At(trainer.maes, j))

\* epoch e attains the minimum validation MAE of the run
AttainsMinimum(e) ==
    \A j \in 0..(Len(trainer.maes) - 1) :
        ~FloatLess(At(trainer.maes, j), At(trainer.maes, e))

\* C27: after every epoch best_val_loss is the minimum validation MAE seen
\* so far; a checkpoint is written in exactly the epochs whose MAE is
\* strictly below every earlier one; and when the loop ends a checkpoint
\* written by this run exists and holds the weights of the first epoch that
\* attained the minimum -- for every sequence of MAE values, all-NaN and
\* all-infinite sequences included.
C27_BestCheckpointKept ==
    /\ \A j \in 0..(Len(trainer.maes) - 1) :
           ~FloatLess(At(trainer.maes, j), trainer.best_val_loss)
    /\ trainer.saves
         = {e \in 0..(Len(trainer.maes) - 1) : StrictlyBelowEarlier(e)}
    /\ trainer.pc # "raised"
    /\ trainer.pc = "loaded"
           => /\ trainer.loaded[1] = "epoch"
              /\ AttainsMinimum(trainer.loaded[2])
              /\ \A e \in 0..(trainer.loaded[2] - 1) : ~AttainsMinimum(e)
====
